---- MODULE Spec2Model ----
(***************************************************************************)
(* Spectrum Shuffle (src/spectrum_shuffle.py): a batch of simulated games. *)
(* run_simulations plays num_simulations games of play_game, each on a     *)
(* deck made by create_deck, and folds the results into statistics.        *)
(*                                                                         *)
(* Python lists are 0-based: positions is a function on 0..n-1, and        *)
(* deck_index, turn and the player indices are the code's own numbers.     *)
(*                                                                         *)
(* random.shuffle makes every order of the 12 cards possible.  The model   *)
(* fixes the order one place at a time, when the place is first read:      *)
(* deck.dealt is the part of the shuffled list whose order is fixed (the   *)
(* places 0..Len(dealt)-1) and deck.rest counts, per colour, the cards     *)
(* whose places are still open.  Every order of the list is a behaviour.   *)
(***************************************************************************)
EXTENDS Integers, Sequences, FiniteSets, TLC

\* ------------------------------------------------------------------ bounds
MaxPlayers == 2

MaxSimulations == 2

\* Invalid arguments tried: 0 down to -MaxInvalid.
MaxInvalid == 1

\* Players of a game played alone (SpecGame).
MaxGamePlayers == 3

\* ----------------------------------------------------------- configuration
COLORS == <<"Red", "Orange", "Yellow", "Green", "Blue", "Violet">>

BOARD_SIZE == Len(COLORS)

ColorSet == {COLORS[i] : i \in 1..Len(COLORS)}

\* The place (1-based) of the first occurrence of card in COLORS.
FirstPlace(card) ==
    CHOOSE i \in 1..Len(COLORS) :
        /\ COLORS[i] = card
        /\ \A j \in 1..(i - 1) : COLORS[j] # card

OneBasedColorIndex(card) == FirstPlace(card)

\* COLORS.index(card): the 0-based index of the first occurrence.
ColorIndex(card) == FirstPlace(card) - 1

\* Python's a % b for b # 0: the result has the sign of b.
PyMod(a, b) == IF b > 0 THEN a % b ELSE -((-a) % (-b))

\* Whether i is a valid index of a Python list of length n (negative
\* indices count from the end).
ValidIndex(i, n) == -n <= i /\ i < n

\* ------------------------------------------------------------------- decks
\* Number of occurrences of c in the sequence s.
Occurrences(s, c) == Cardinality({i \in 1..Len(s) : s[i] = c})

DeckCardsOnce == COLORS

DeckCardsThrice == COLORS \o COLORS \o COLORS

\* COLORS * 2 (list repetition).
DeckCards == COLORS \o COLORS

\* create_deck(): the list COLORS * 2, shuffled; no place of the shuffled
\* order is fixed yet.
create_deck ==
    [dealt |-> <<>>,
     rest  |-> [c \in ColorSet |-> Occurrences(DeckCards, c)]]

\* The value of the local `deck` outside a game (no such object).
NoDeck == [dealt |-> <<>>, rest |-> [c \in ColorSet |-> 0]]

\* The sum of the values f[x], x in S (f[x] >= 0): one pair <<x, k>> per unit.
SumOver(f, S) == Cardinality(UNION {{<<x, k>> : k \in 1..f[x]} : x \in S})

\* len(deck)
DeckLen(d) == Len(d.dealt) + SumOver(d.rest, DOMAIN d.rest)

\* The cards deck[i] may be: the card fixed at place i, or, when place i is
\* the first open one, any card whose place is open.
CardsAt(d, i) ==
    IF i < Len(d.dealt) THEN {d.dealt[i + 1]}
    ELSE {c \in DOMAIN d.rest : d.rest[c] > 0}

\* The deck once deck[i] has been read as `card`.
Reveal(d, i, card) ==
    IF i < Len(d.dealt) THEN d
    ELSE [dealt |-> Append(d.dealt, card),
          rest  |-> [d.rest EXCEPT ![card] = @ - 1]]

\* ------------------------------------------------------------------- state
VARIABLES
    num_simulations,  \* argument of run_simulations
    num_players,      \* argument of run_simulations, passed to play_game
    pc,               \* "batch", "game", "returned", "done", "error"
    error,            \* the exception raised, "" when none
    sim,              \* iterations of the for loop started
    wins_per_player,  \* defaultdict(int): a function on the keys present
    all_turns,        \* list of the turn counts of the games played
    positions,        \* play_game: positions
    deck,             \* play_game: deck
    deck_index,       \* play_game: deck_index
    turn,             \* play_game: turn
    result,           \* the dict play_game returned
    stats,            \* the dict run_simulations returned
    decks_created,    \* history: calls of create_deck in the batch
    cards_drawn,      \* history: reads of deck[deck_index] in the batch
    games             \* history: the results recorded, in order

vars == <<num_simulations, num_players, pc, error, sim, wins_per_player,
          all_turns, positions, deck, deck_index, turn, result, stats,
          decks_created, cards_drawn, games>>

batchVars == <<sim, wins_per_player, all_turns, stats>>

gameVars == <<positions, deck, deck_index, turn, result>>

args == <<num_simulations, num_players>>

NoPositions == [p \in {} |-> 0]

NoResult == [winner |-> -1, turns |-> 0]

NoStats ==
    [wins_per_player |-> [p \in {} |-> 0],
     avg_turns |-> [num |-> 0, den |-> 0],
     min_turns |-> 0,
     max_turns |-> 0]

\* run_simulations(num_simulations, num_players) has been called and has
\* made its empty accumulators (lines 84-85).
Constructed ==
    /\ pc = "batch"
    /\ error = ""
    /\ sim = 0
    /\ wins_per_player = [p \in {} |-> 0]
    /\ all_turns = <<>>
    /\ positions = NoPositions
    /\ deck = NoDeck
    /\ deck_index = 0
    /\ turn = 0
    /\ result = NoResult
    /\ stats = NoStats
    /\ decks_created = 0
    /\ cards_drawn = 0
    /\ games = <<>>

Init ==
    /\ num_simulations \in (-MaxInvalid)..MaxSimulations
    /\ num_players \in (-MaxInvalid)..MaxPlayers
    /\ Constructed

\* One game of 1..MaxGamePlayers players: run_simulations(1, num_players).
InitGame ==
    /\ num_simulations = 1
    /\ num_players \in 1..MaxGamePlayers
    /\ Constructed

\* ----------------------------------------------------------------- actions
\* Lines 87-88 and 40-43: the for loop takes its next iteration and calls
\* play_game, which sets up its locals.
MoreGamesInclusive(s, n) == s <= n

\* Whether range(n) has an item left after s of them.
MoreGames(s, n) == s < n

StalePositions(n) == [p \in 0..(n - 1) |-> Len(all_turns)]

\* [0] * num_players (line 40).
InitialPositions(n) == [p \in 0..(n - 1) |-> 0]

StartGame ==
    /\ pc = "batch"
    /\ MoreGames(sim, num_simulations)
    /\ sim' = sim + 1
    /\ positions' = InitialPositions(num_players)
    /\ deck' = create_deck
    /\ deck_index' = 0
    /\ turn' = 0
    /\ decks_created' = decks_created + 1
    /\ pc' = "game"
    /\ UNCHANGED <<args, error, wins_per_player, all_turns, result, stats,
                   cards_drawn, games>>

\* The new position of a player at position p who draws the colour of
\* index c (lines 58-61).
NoWrapMove(c, p) == c

AlwaysWrapMove(c, p) == c + BOARD_SIZE

MoveGE(c, p) == IF c >= p THEN c ELSE c + BOARD_SIZE

Move(c, p) == IF c > p THEN c ELSE c + BOARD_SIZE

WinsStrict(p) == p > BOARD_SIZE - 1

WinsOnLast(p) == p = BOARD_SIZE - 1

\* The win test of line 63.
Wins(p) == p >= BOARD_SIZE - 1

\* turn % num_players (line 46), num_players # 0.
FirstPlayerAlways(t, n) == 0

NextPlayer(t, n) == PyMod(t + 1, n)

CurrentPlayer(t, n) == PyMod(t, n)

\* The turn count play_game returns (line 64).
ZeroBasedTurns(t) == t

ReturnedTurns(t) == t + 1

ExhaustedFlipped(d, i) == i <= DeckLen(d)

\* Whether the deck is replenished (line 49).
Exhausted(d, i) == i >= DeckLen(d)

\* Lines 45-66: one iteration of play_game's loop.
Turn ==
    /\ pc = "game"
    /\ IF num_players = 0
       THEN \* line 46: integer modulo by zero
            /\ pc' = "error"
            /\ error' = "ZeroDivisionError"
            /\ UNCHANGED <<args, batchVars, gameVars, decks_created,
                           cards_drawn, games>>
       ELSE LET current_player == CurrentPlayer(turn, num_players)
                fresh == Exhausted(deck, deck_index)
                d1 == IF fresh THEN create_deck ELSE deck
                i1 == IF fresh THEN 0 ELSE deck_index
            IN  /\ decks_created' = decks_created + (IF fresh THEN 1 ELSE 0)
                /\ UNCHANGED games
                /\ IF ~ValidIndex(i1, DeckLen(d1))
                   THEN \* line 53: deck[deck_index] out of range
                        /\ pc' = "error"
                        /\ error' = "IndexError"
                        /\ deck' = d1
                        /\ deck_index' = i1
                        /\ UNCHANGED <<args, batchVars, positions, turn,
                                       result, cards_drawn>>
                   ELSE \E card \in CardsAt(d1, i1) :
                        LET color_index == ColorIndex(card)
                        IN  /\ deck' = Reveal(d1, i1, card)
                            /\ deck_index' = i1 + 1
                            /\ cards_drawn' = cards_drawn + 1
                            /\ UNCHANGED <<args, batchVars>>
                            /\ IF ~ValidIndex(current_player,
                                              Cardinality(DOMAIN positions))
                               THEN \* line 58: positions is the empty list
                                    /\ pc' = "error"
                                    /\ error' = "IndexError"
                                    /\ UNCHANGED <<positions, turn, result>>
                               ELSE LET new == Move(color_index,
                                                    positions[current_player])
                                    IN  /\ positions' =
                                             [positions EXCEPT
                                                ![current_player] = new]
                                        /\ IF Wins(new)
                                           THEN /\ result' =
                                                     [winner |-> current_player,
                                                      turns |-> ReturnedTurns(turn)]
                                                /\ pc' = "returned"
                                                /\ UNCHANGED <<turn, error>>
                                           ELSE /\ turn' = turn + 1
                                                /\ UNCHANGED <<pc, error, result>>

SetWin(w, p) == [q \in DOMAIN w \cup {p} |-> IF q = p THEN 1 ELSE w[q]]

\* wins_per_player[p] += 1 on a defaultdict(int): a missing key counts 0.
CountWin(w, p) ==
    [q \in DOMAIN w \cup {p} |->
        IF q = p THEN (IF p \in DOMAIN w THEN w[p] ELSE 0) + 1 ELSE w[q]]

\* Lines 89-90: the result of the game is folded into the accumulators;
\* play_game's frame is gone.
Record ==
    /\ pc = "returned"
    /\ wins_per_player' = CountWin(wins_per_player, result.winner)
    /\ all_turns' = Append(all_turns, result.turns)
    /\ positions' = NoPositions
    /\ deck' = NoDeck
    /\ deck_index' = 0
    /\ turn' = 0
    /\ result' = NoResult
    /\ pc' = "batch"
    /\ games' = Append(games, result)
    /\ UNCHANGED <<args, error, sim, stats, decks_created, cards_drawn>>

\* sum(all_turns)
SeqSum(s) == SumOver(s, 1..Len(s))

SeqSet(s) == {s[i] : i \in 1..Len(s)}

LastAsMax(s) == s[Len(s)]

\* max(all_turns), min(all_turns) of a non-empty list.
SeqMax(s) == CHOOSE x \in SeqSet(s) : \A y \in SeqSet(s) : x >= y

FirstAsMin(s) == Head(s)

SeqMin(s) == CHOOSE x \in SeqSet(s) : \A y \in SeqSet(s) : x <= y

\* Lines 92-98: the loop is over; the statistics are computed and returned.
\* avg_turns is the quotient sum / len, kept as the fraction it is.
Finish ==
    /\ pc = "batch"
    /\ ~MoreGames(sim, num_simulations)
    /\ IF Len(all_turns) = 0
       THEN \* line 94: sum([]) / len([])
            /\ pc' = "error"
            /\ error' = "ZeroDivisionError"
            /\ UNCHANGED stats
       ELSE /\ stats' =
                 [wins_per_player |-> wins_per_player,
                  avg_turns |-> [num |-> SeqSum(all_turns),
                                 den |-> Len(all_turns)],
                  min_turns |-> SeqMin(all_turns),
                  max_turns |-> SeqMax(all_turns)]
            /\ pc' = "done"
            /\ UNCHANGED error
    /\ UNCHANGED <<args, sim, wins_per_player, all_turns, gameVars,
                   decks_created, cards_drawn, games>>

\* Lines 84-97 as one fold over a list of results: the statistics
\* run_simulations returns when the games complete in the order rs.
RECURSIVE WinsOf(_)
WinsOf(rs) ==
    IF rs = <<>> THEN [p \in {} |-> 0]
    ELSE CountWin(WinsOf(SubSeq(rs, 1, Len(rs) - 1)), rs[Len(rs)].winner)

TurnsOf(rs) == [i \in 1..Len(rs) |-> rs[i].turns]

StatsOf(rs) ==
    [wins_per_player |-> WinsOf(rs),
     avg_turns |-> [num |-> SeqSum(TurnsOf(rs)), den |-> Len(rs)],
     min_turns |-> SeqMin(TurnsOf(rs)),
     max_turns |-> SeqMax(TurnsOf(rs))]

Next == StartGame \/ Turn \/ Record \/ Finish

Spec == Init /\ [][Next]_vars

\* The program is sequential and never waits: every enabled step is taken.
FairSpec == Spec /\ WF_vars(Next)

\* play_game alone, with more players than the batches have.
SpecGame == InitGame /\ [][Next]_vars

\* ------------------------------------------------------------------ claims
InGame == pc \in {"game", "returned"}

\* A step of Turn with valid arguments (every one draws and moves).
TurnStep == pc = "game" /\ num_players >= 1 /\ cards_drawn' # cards_drawn

\* C1: for num_players >= 1 and every order of the deck, every game started
\* returns, and what it returns is one winner in 0..num_players-1 and a turn
\* count >= 1.
C1_Terminates ==
    /\ [](pc = "returned" =>
            /\ result.winner \in 0..(num_players - 1)
            /\ result.turns >= 1)
    /\ ((pc = "game" /\ num_players >= 1) ~> (pc = "returned"))

C1_Witness ==
    /\ pc = "returned"
    /\ num_players = 2
    /\ result.winner = 1
    /\ result.turns > 2

\* C2: on every turn the position of the player who moves (turn mod
\* num_players) is strictly greater after the move than before it, and it
\* is < 6 before the move.
C2_StrictProgress ==
    [][TurnStep =>
        LET p == turn % num_players
        IN  /\ positions[p] < 6
            /\ positions'[p] > positions[p]]_vars

\* A game won on a later turn by a wrap past the end of the board.
C2_Witness ==
    /\ pc = "returned"
    /\ result.turns >= 2
    /\ positions[result.winner] > BOARD_SIZE

\* C3: the player who draws and moves on turn t is t mod num_players, turn
\* numbers go up by one from 0, and the winner returned is
\* (turns - 1) mod num_players.
C3_RoundRobin ==
    /\ [](pc = "game" /\ deck_index = 0 => turn = 0)
    /\ [](pc = "returned" /\ num_players >= 1 =>
            result.winner = (result.turns - 1) % num_players)
    /\ [][TurnStep =>
            /\ positions'[turn % num_players] # positions[turn % num_players]
            /\ \A q \in DOMAIN positions :
                 q # turn % num_players => positions'[q] = positions[q]
            /\ (pc' = "game" => turn' = turn + 1)
            /\ (pc' = "returned" =>
                  result'.winner = turn % num_players)]_vars

C3_Witness ==
    /\ pc = "returned"
    /\ num_players = 2
    /\ result.turns = 4
    /\ result.winner = 1

\* C4 as stated: in a 1-player game on a deck that starts Green, Yellow, the
\* first turn moves the player from 0 to 2, the second from 2 to 7, and the
\* game ends on turn 2 with {winner: 0, turns: 2}.
C4_AsStated ==
    (num_players = 1 /\ InGame) =>
        /\ (deck.dealt = <<"Green">> => pc = "game" /\ positions[0] = 2)
        /\ (deck.dealt = <<"Green", "Yellow">> =>
              /\ positions[0] = 7
              /\ pc = "returned"
              /\ result = [winner |-> 0, turns |-> 2])

\* C4 amended: Green has index 3 and Yellow index 2, so the first turn moves
\* the player from 0 to 3, the second from 3 to 8 (2 + 6), and the game ends
\* on turn 2 with {winner: 0, turns: 2}.
C4_GreenYellow ==
    (num_players = 1 /\ InGame) =>
        /\ (turn = 0 /\ deck_index = 0 => positions[0] = 0)
        /\ (deck.dealt = <<"Green">> =>
              pc = "game" /\ turn = 1 /\ positions[0] = 3)
        /\ (Len(deck.dealt) >= 2 /\ SubSeq(deck.dealt, 1, 2) = <<"Green", "Yellow">> =>
              /\ deck.dealt = <<"Green", "Yellow">>
              /\ positions[0] = 8
              /\ pc = "returned"
              /\ result = [winner |-> 0, turns |-> 2])

C4_Witness ==
    /\ num_players = 1
    /\ pc = "returned"
    /\ deck.dealt = <<"Green", "Yellow">>

\* C5: a batch of num_simulations >= 1 games of num_players >= 1 returns
\* wins_per_player whose values sum to num_simulations and whose keys are
\* player indices in 0..num_players-1.
C5_WinsSum ==
    pc = "done" =>
        /\ DOMAIN stats.wins_per_player \subseteq 0..(num_players - 1)
        /\ SumOver(stats.wins_per_player, DOMAIN stats.wins_per_player)
             = num_simulations

\* A batch in which one player won twice.
C5_Witness ==
    /\ pc = "done"
    /\ num_simulations >= 2
    /\ \E p \in DOMAIN stats.wins_per_player : stats.wins_per_player[p] >= 2

\* C6: min_turns and max_turns are the smallest and the largest turn count
\* of the batch, avg_turns is their sum over num_simulations, and
\* min_turns <= avg_turns <= max_turns.
C6_TurnStats ==
    pc = "done" =>
        LET n == num_simulations
            T == {all_turns[i] : i \in 1..Len(all_turns)}
        IN  /\ Len(all_turns) = n
            /\ stats.min_turns \in T
            /\ stats.max_turns \in T
            /\ \A t \in T : stats.min_turns <= t /\ t <= stats.max_turns
            /\ stats.avg_turns.den = n
            /\ stats.avg_turns.num = SeqSum(all_turns)
            /\ stats.min_turns * n <= stats.avg_turns.num
            /\ stats.avg_turns.num <= stats.max_turns * n

\* A batch whose second game was the shorter one.
C6_Witness ==
    /\ pc = "done"
    /\ Len(all_turns) = 2
    /\ all_turns[2] < all_turns[1]

\* C7: every deck made by create_deck, at game start or on replenishment,
\* has 12 cards, two of each of the 6 colours; no colour is drawn more than
\* twice from one deck.
C7_DeckComposition ==
    InGame =>
        /\ DeckLen(deck) = 12
        /\ DOMAIN deck.rest = ColorSet
        /\ Cardinality(ColorSet) = 6
        /\ \A c \in ColorSet :
             /\ Occurrences(deck.dealt, c) + deck.rest[c] = 2
             /\ Occurrences(deck.dealt, c) <= 2

\* A game in which both cards of one colour have been drawn.
C7_Witness ==
    /\ pc = "game"
    /\ \E c \in ColorSet : Occurrences(deck.dealt, c) = 2

\* C9: with num_players <= 0 or num_simulations <= 0 no game is started (no
\* deck is created, no card is drawn) and no statistics are returned.
C9_FailsBeforeAnyGame ==
    (num_players <= 0 \/ num_simulations <= 0) =>
        /\ decks_created = 0
        /\ cards_drawn = 0
        /\ pc \in {"batch", "error"}

\* C10: with num_simulations = 0 and num_players >= 1 no game is played, no
\* statistics are returned, and the call ends in a division by zero.
C10_EmptyBatch ==
    /\ [](num_simulations = 0 /\ num_players >= 1 =>
            /\ decks_created = 0
            /\ cards_drawn = 0
            /\ pc \in {"batch", "error"}
            /\ stats = NoStats
            /\ (pc = "error" => error = "ZeroDivisionError"))
    /\ ((num_simulations = 0 /\ num_players >= 1) ~> (pc = "error"))

C10_Witness ==
    /\ num_simulations = 0
    /\ num_players >= 1
    /\ pc = "error"
    /\ error = "ZeroDivisionError"

\* The player whose turn it is, and the card a step of Turn has read.
Mover == turn % num_players

DrawnCard == deck'.dealt[Len(deck'.dealt)]

\* C11: with C the index of the drawn colour and p the mover's position, the
\* new position is C when C > p and C + 6 when C <= p, nothing else.
C11_MoveRule ==
    [][TurnStep =>
        LET C == ColorIndex(DrawnCard)
            p == positions[Mover]
        IN  /\ C \in 0..5
            /\ (C > p => positions'[Mover] = C)
            /\ (C <= p => positions'[Mover] = C + 6)]_vars

\* A player at Orange (1) who drew Orange again: C = p, moved to 1 + 6.
C11_Witness ==
    /\ num_players = 1
    /\ deck.dealt = <<"Orange", "Orange">>
    /\ positions[0] = 7

\* C12: the game ends on the first turn whose move reaches a position >= 5
\* and on none before; the turns returned are the turn counter plus 1, the
\* number of cards drawn in the game; the winner is the mover; nothing is
\* drawn or moved afterwards.
C12_EndsOnFirstWin ==
    /\ [](pc = "game" /\ num_players >= 1 =>
            \A q \in DOMAIN positions : positions[q] < 5)
    /\ [](pc = "returned" =>
            /\ cards_drawn = SeqSum(all_turns) + result.turns
            /\ result.turns = deck_index
            /\ result.turns = turn + 1)
    /\ [][TurnStep =>
            /\ (pc' = "returned" <=> positions'[Mover] >= 5)
            /\ (pc' = "returned" =>
                  /\ result'.turns = turn + 1
                  /\ result'.winner = Mover)
            /\ (pc' # "returned" => pc' = "game")]_vars
    /\ [][pc = "returned" =>
            /\ cards_drawn' = cards_drawn
            /\ pc' # "game"
            /\ all_turns' = Append(all_turns, turn + 1)]_vars

C12_Witness ==
    /\ pc = "returned"
    /\ num_players = 2
    /\ result.turns = 3
    /\ sim = 2

\* C13: a player at position 4 at the start of their turn wins on that turn
\* whatever the card: Violet moves them to 5, any other colour to 6..10.
C13_FourAlwaysWins ==
    [][TurnStep /\ positions[Mover] = 4 =>
        /\ pc' = "returned"
        /\ result'.winner = Mover
        /\ (DrawnCard = "Violet" => positions'[Mover] = 5)
        /\ (DrawnCard # "Violet" => positions'[Mover] \in 6..10)]_vars

\* A player at Blue (4) who drew Red and won at 6.
C13_Witness ==
    /\ num_players = 1
    /\ deck.dealt = <<"Blue", "Red">>
    /\ pc = "returned"
    /\ positions[0] = 6

\* C14: the statistics returned are those of every reordering of the same
\* game results.
C14_OrderIndependent ==
    pc = "done" =>
        \A f \in Permutations(1..Len(games)) :
            StatsOf([i \in 1..Len(games) |-> games[f[i]]]) = stats

\* A batch of two games with different winners and different lengths.
C14_Witness ==
    /\ pc = "done"
    /\ Len(games) = 2
    /\ games[1].winner # games[2].winner
    /\ games[1].turns > games[2].turns

\* C15: whatever the earlier games did, a game starts with all num_players
\* positions 0, turn 0, deck_index 0 and a new full deck.
C15_FreshGame ==
    [][pc = "batch" /\ pc' = "game" /\ num_players >= 1 =>
        /\ DOMAIN positions' = 0..(num_players - 1)
        /\ \A q \in DOMAIN positions' : positions'[q] = 0
        /\ turn' = 0
        /\ deck_index' = 0
        /\ deck'.dealt = <<>>
        /\ \A c \in ColorSet : deck'.rest[c] = 2]_vars

\* The second game of a batch, started after a first game of several turns.
C15_Witness ==
    /\ pc = "game"
    /\ sim = 2
    /\ deck_index = 0
    /\ all_turns[1] >= 3

\* C16: the turns returned are at most min(4 * num_players + 1, 9).
C16_TurnCap ==
    /\ (pc = "returned" =>
          /\ result.turns <= 4 * num_players + 1
          /\ result.turns <= 9)
    /\ (pc = "game" => turn <= 4 * num_players /\ turn <= 8)

\* Three players: the 9 cards of the deck cap, below 4 * 3 + 1.
C16_Witness ==
    /\ pc = "returned"
    /\ num_players = 3
    /\ result.turns = 9

\* C17: the deck is never replenished: at the start of every turn deck_index
\* equals turn and is < 12, and create_deck is called once per game.
C17_NoReplenish ==
    /\ (pc = "game" =>
          /\ deck_index = turn
          /\ deck_index < 12
          /\ deck_index < DeckLen(deck))
    /\ (pc = "returned" => Len(deck.dealt) = result.turns)
    /\ decks_created = sim

\* The latest turn a game can start: the ninth.
C17_Witness ==
    /\ pc = "game"
    /\ num_players = 2
    /\ turn = 8
    /\ sim = 2

\* C18: a move wins if and only if the card is Violet or its colour index is
\* <= the mover's position before the move; Red wins at any time.
C18_WinningCards ==
    [][TurnStep =>
        LET C == ColorIndex(DrawnCard)
        IN  /\ (pc' = "returned" <=> (C = 5 \/ C <= positions[Mover]))
            /\ (DrawnCard = "Red" => pc' = "returned")]_vars

\* A game that Red ended on turn 1.
C18_Witness ==
    /\ pc = "returned"
    /\ result.turns = 1
    /\ deck.dealt = <<"Red">>

\* C19: while the game runs every position is in 0..4; when it has ended
\* the winner alone has a position >= 5, in 5..10, the others are in 0..4.
C19_PositionRanges ==
    /\ (pc = "game" /\ num_players >= 1 =>
          \A q \in DOMAIN positions : positions[q] \in 0..4)
    /\ (pc = "returned" =>
          /\ positions[result.winner] \in 5..10
          /\ \A q \in DOMAIN positions \ {result.winner} :
               positions[q] \in 0..4)

\* The winner at the highest position, 10, beside a player still at 3.
C19_Witness ==
    /\ pc = "returned"
    /\ num_players = 2
    /\ positions[result.winner] = 10
    /\ positions[1 - result.winner] = 3

\* C20: a turn changes the position of player turn mod num_players only,
\* and the number of players never changes during a game.
C20_FrameOfTurn ==
    /\ [](InGame /\ num_players >= 1 =>
            DOMAIN positions = 0..(num_players - 1))
    /\ [][TurnStep =>
            /\ DOMAIN positions' = DOMAIN positions
            /\ num_players' = num_players
            /\ positions'[Mover] # positions[Mover]
            /\ \A q \in DOMAIN positions :
                 q # Mover => positions'[q] = positions[q]]_vars

\* The second player has just moved; the first player's position stands.
C20_Witness ==
    /\ pc = "game"
    /\ num_players = 2
    /\ turn = 2
    /\ positions[0] = 1
    /\ positions[1] = 4

====
